---- MODULE Spec2Model ----
(***************************************************************************)
(* State-machine model of the CV page script (src/src/main.js and its two  *)
(* sibling builds src/unnamed/part_000 and src/unnamed/part_002).          *)
(*                                                                         *)
(* The page is single threaded: every action below is one run-to-          *)
(* completion step of the browser event loop (the init() call, one event   *)
(* listener dispatch, or one setTimeout callback).                         *)
(***************************************************************************)
EXTENDS Naturals, Sequences, FiniteSets

(***************************************************************************)
(* Bounds of the model.                                                    *)
(***************************************************************************)
\* exportPDF / window.print invocations explored per page load
MaxExports == 2
\* length of the tracked run of consecutive switchTheme calls
MaxToggles == 4
\* entries delivered to one IntersectionObserver callback
MaxBatch == 2
\* history.pushState calls explored per page load
MaxPushes == 2

(***************************************************************************)
(* Values.                                                                 *)
(***************************************************************************)
\* getAttribute / getItem / dataset result for an absent attribute or key
NULL == "<null>"
Themes == {"light", "dark"}
ThemeValues == Themes \cup {NULL}
\* the three builds of the script present in the repository
Builds == {"main.js", "part_000", "part_002"}
\* builds that contain the CertModal and PDFExport modules
HasModalAndExport(b) == b \in {"main.js", "part_002", "part_001"}

\* String(v) as performed by a DOM string setter: undefined -> "undefined"
ToDOMString(v) == IF v = NULL THEN "undefined" ELSE v
\* JavaScript truthiness of a string-or-missing value: "" and undefined are falsy
Truthy(v) == v # NULL /\ v # ""

\* Certificate trigger elements of the page: dataset.cert and dataset.title
Triggers ==
    { [cert |-> "a.png", title |-> "A"],
      [cert |-> "b.png", title |-> "B"],
      [cert |-> "",      title |-> "C"],
      [cert |-> NULL,    title |-> "D"] }
ValidTriggers == { t \in Triggers : Truthy(t.cert) }
Keys == {"Escape", "p", "a"}
\* elements that can hold keyboard focus: the body, a certificate trigger (or
\* any other focusable page element outside the modal), the modal's close control
FocusTargets == {"body", "trigger", "closeBtn"}
\* the href of the skip link and the id of the element its handler focuses
SkipHref == "#main"
SkipTarget == "main"

\* Navigation markup of a page: the href of every .nav__link in document
\* order and the id of every section[id] in document order
NavDefault == [links |-> <<"#about", "#skills">>, sections |-> <<"about", "skills">>]
NavConfigs ==
    { NavDefault,
      \* a section without a navigation link
      [links |-> <<"#about", "#skills">>, sections |-> <<"about", "skills", "contact">>],
      \* two links (header and footer) to one section
      [links |-> <<"#about", "#skills", "#about">>, sections |-> <<"about", "skills">>],
      \* no navigation links
      [links |-> <<>>, sections |-> <<"about", "skills">>],
      \* no section with an id
      [links |-> <<"#about", "#skills">>, sections |-> <<>>] }
SectionIds == {"about", "skills", "contact"}
Range(f) == { f[i] : i \in DOMAIN f }

\* the script with the Analytics module of the tracker guide added to it
AnalyticsBuild == "part_001"
\* how window.localStorage answers: "ok"; "denied": every access throws
\* (SecurityError, storage blocked); "full": setItem throws
\* (QuotaExceededError) while getItem works
StorageModes == {"ok", "denied", "full"}
\* document.readyState as the script tests it: 'loading' or not
ReadyStates == {"loading", "interactive"}
\* how a telemetry request ends: a 2xx response, any other response, a
\* rejected fetch (network error, timeout of the connection)
Outcomes == {"2xx", "non2xx", "reject"}

\* the legacy script src/src/main-old.js
LegacyBuild == "main-old.js"
\* colour palettes of the legacy ThemeSelector
DefaultPalette == "modern-tech"
Palettes == {"modern-tech", "executive-elite", "modern-minimal", "crimson-pro",
             "slate-modern"}
\* names that are no key of THEMES but that the object literal inherits from
\* Object.prototype: THEMES[name] is truthy for them
PrototypeNames ==
    {"constructor", "toString", "toLocaleString", "valueOf", "hasOwnProperty",
     "isPrototypeOf", "propertyIsEnumerable", "__proto__", "__defineGetter__",
     "__defineSetter__", "__lookupGetter__", "__lookupSetter__"}
\* values the data-theme attribute of a .theme-option can carry: the five
\* palettes, an inherited name, a name THEMES does not have
PaletteOptions == Palettes \cup PrototypeNames \cup {"unknown"}
\* the href of the legacy page's skip link and the id of its target
LegacySkipHref == "#main-content"
LegacySkipTarget == "main-content"
\* elements a tap can land on
TapTargets == {"toggle", "export"}
\* href values that are not valid selectors: querySelector throws on them
InvalidSelectors == {"#1st"}

\* function init(): the modules in the order their init is called
SourceOrder(b) ==
    IF b = "part_000"
    THEN <<"ThemeManager", "SmoothScroll", "NavHighlight", "Accessibility",
           "PrintHandler">>
    ELSE IF b = AnalyticsBuild
    THEN <<"ThemeManager", "SmoothScroll", "NavHighlight", "Accessibility",
           "CertModal", "PDFExport", "PrintHandler", "Analytics">>
    ELSE <<"ThemeManager", "SmoothScroll", "NavHighlight", "Accessibility",
           "CertModal", "PDFExport", "PrintHandler">>

Reverse(o) == [i \in 1..Len(o) |-> o[Len(o) + 1 - i]]
Rotate(o, k) == [i \in 1..Len(o) |-> o[((i + k - 1) % Len(o)) + 1]]
\* reorderings of the init calls: every rotation of the source order and its
\* reverse
InitOrders(b) ==
    { Rotate(SourceOrder(b), k) : k \in 0..(Len(SourceOrder(b)) - 1) }
        \cup { Reverse(SourceOrder(b)) }

VARIABLES
    build,      \* which build of the script the page loads
    dom,        \* which anchor elements the document contains
    prefersDark,\* matchMedia('(prefers-color-scheme: dark)').matches
    inited,     \* init() has run
    listeners,  \* event listeners registered so far
    dataTheme,  \* documentElement's data-theme attribute (NULL: absent)
    storage,    \* localStorage['cv-color-scheme'] (NULL: absent)
    timers,     \* pending exportPDF timeouts, oldest first: captured currentTheme
    printLog,   \* data-theme seen by each window.print() call, in call order
    modal,      \* the cert modal: hidden, img src/alt, title text
    overflow,   \* document.body.style.overflow
    focus,      \* the element holding keyboard focus
    last,       \* history: the handler that ran in the latest step
    run,        \* history: consecutive switchTheme calls since an unset page load
    burst,      \* history: the current/latest group of overlapping exports
    wasOpen,    \* history: the modal was visible when the latest step started
    focusBefore,\* history: the focus holder when the modal was last opened
    nav,        \* the page's navigation links and sections
    observed,   \* section ids the IntersectionObserver observes
    navActive,  \* indexes of the links carrying nav__link--active
    lastBatch,  \* history: the entries of the latest intersection callback
    lastSeen,   \* history: the section most recently reported intersecting
    storageMode,\* how localStorage answers during this page load
    readyState, \* document.readyState
    order,      \* the order in which init() calls the modules' init
    script,     \* "start": the script has not run; "deferred": init waits
                \* for DOMContentLoaded; "done": init has been called
    widgets,    \* modules whose init() returned normally
    dataJs,     \* documentElement carries data-js="true"
    uncaught,   \* entry points an exception has escaped from
    initRuns,   \* number of calls of function init()
    requests,   \* telemetry POSTs issued
    inflight,   \* a telemetry POST awaits its outcome
    trackLog,   \* console entries written by Analytics.trackVisit
    tap,        \* the latest tap: its target, a click still to be dispatched,
                \* handler calls it caused, the theme its first handler found
    scroll,     \* the latest click on an in-page link: its default was
                \* prevented, by which modules' listeners; all scrollIntoView
                \* targets and history.pushState URLs so far
    legacy      \* the page of the legacy script (DarkMode, ThemeSelector)

pageVars  == <<build, dom, prefersDark, inited, listeners, nav>>
themeVars == <<dataTheme, storage>>
printVars == <<timers, printLog>>
modalVars == <<modal, overflow, focus>>
histVars  == <<last, run, burst, wasOpen, focusBefore>>
navVars   == <<observed, navActive, lastBatch, lastSeen>>
envVars   == <<storageMode, readyState, order>>
loadVars  == <<script, widgets, dataJs, uncaught, initRuns>>
telVars   == <<requests, inflight, trackLog>>
extVars   == <<tap, scroll, legacy>>
vars == <<pageVars, themeVars, printVars, modalVars, histVars, navVars,
          envVars, loadVars, telVars, extVars>>

NoTap == [target |-> "none", pending |-> "none", calls |-> 0, before |-> NULL]
NoScroll == [prevented |-> FALSE, scrolledTo |-> <<>>, pushed |-> <<>>, by |-> {}]
\* the legacy script is not part of the page
LegacyOff ==
    [inited |-> FALSE, saved |-> NULL, system |-> FALSE, dataTheme |-> NULL,
     darkClass |-> FALSE, palette |-> NULL, savedAtLoad |-> FALSE,
     hasCaller |-> FALSE, userChose |-> FALSE]
\* the legacy page before its init: any stored preference, palette and system
\* colour scheme; the page may hold a caller of the public DarkMode.toggle()
\* (an inline handler or another script: main-old.js itself has none)
LegacyStarts ==
    { [LegacyOff EXCEPT !.saved = sv, !.system = sy, !.palette = pl,
                        !.savedAtLoad = (sv # NULL), !.hasCaller = hc] :
        sv \in ThemeValues, sy \in BOOLEAN, hc \in BOOLEAN,
        pl \in {NULL, DefaultPalette, "crimson-pro", "unknown"}
                  \cup PrototypeNames }

\* `run` value meaning "not a run of toggles from an unset page load"
RunOff == MaxToggles + 1
NoBurst == [n |-> 0, base |-> NULL, toggled |-> FALSE]
ClosedModal == [hidden |-> TRUE, src |-> "", alt |-> "", title |-> ""]

(***************************************************************************)
(* The state when the script starts: the document is parsed, nothing is    *)
(* wired, the storage holds whatever an earlier visit left.                *)
(***************************************************************************)
InitState ==
    /\ dom \in [toggle : BOOLEAN, modal : BOOLEAN, exportBtn : BOOLEAN,
                skipLink : BOOLEAN, main : BOOLEAN]
    /\ prefersDark \in BOOLEAN
    /\ inited = FALSE
    /\ listeners = {}
    /\ dataTheme = NULL
    /\ storage \in ThemeValues
    /\ timers = <<>>
    /\ printLog = <<>>
    /\ modal = ClosedModal
    /\ overflow = ""
    /\ focus = "body"
    /\ last = "none"
    /\ run = IF storage = NULL THEN 0 ELSE RunOff
    /\ burst = NoBurst
    /\ wasOpen = FALSE
    /\ focusBefore = "none"
    /\ observed = {}
    /\ navActive = {}
    /\ lastBatch = <<>>
    /\ lastSeen = "none"
    /\ script = "start"
    /\ widgets = {}
    /\ dataJs = FALSE
    /\ uncaught = {}
    /\ initRuns = 0
    /\ requests = 0
    /\ inflight = FALSE
    /\ trackLog = <<>>
    /\ tap = NoTap
    /\ scroll = NoScroll

\* one of the three builds of the script
InitCore == build \in Builds /\ InitState

\* the script runs on a parsed document, storage works, source order; the
\* legacy script is not loaded
InitEnv ==
    /\ storageMode = "ok"
    /\ readyState = "interactive"
    /\ order = SourceOrder(build)
    /\ legacy = LegacyOff

\* a page without a .skip-link element (its <main id="main"> is there)
NoSkipLink == ~dom.skipLink /\ dom.main

\* the page of the legacy script
InitLegacy ==
    /\ build = LegacyBuild
    /\ InitState
    /\ ~dom.toggle /\ ~dom.modal /\ ~dom.exportBtn
    /\ NoSkipLink
    /\ prefersDark = FALSE
    /\ storage = NULL
    /\ nav = NavDefault
    /\ storageMode = "ok"
    /\ readyState = "interactive"
    /\ order = <<>>
    /\ legacy \in LegacyStarts

\* the legacy page with or without a skip link and its #main-content, no
\* palette stored
InitLegacyPage ==
    /\ build = LegacyBuild
    /\ InitState
    /\ ~dom.toggle /\ ~dom.modal /\ ~dom.exportBtn
    /\ prefersDark = FALSE
    /\ storage = NULL
    /\ nav = NavDefault
    /\ storageMode = "ok"
    /\ readyState = "interactive"
    /\ order = <<>>
    /\ legacy \in { l \in LegacyStarts : l.palette = NULL /\ ~l.hasCaller }

\* a page with one navigation link per section and no skip link
Init == InitCore /\ InitEnv /\ nav = NavDefault /\ NoSkipLink

\* a page with the toggle, the modal and the export button, one navigation
\* link per section, with or without a skip link and the
\* <main id="main" tabindex="-1"> it points to
InitScroll ==
    /\ InitCore /\ InitEnv /\ nav = NavDefault
    /\ dom.toggle /\ dom.modal /\ dom.exportBtn

\* the same pages on first visit (nothing stored, system scheme light)
InitSkip == InitScroll /\ storage = NULL /\ ~prefersDark

\* any of the navigation markups
InitNav == InitCore /\ InitEnv /\ nav \in NavConfigs /\ NoSkipLink

\* page load in any environment: the script may run while the document is
\* still loading, storage may be blocked or full, the init calls reordered
InitLoad ==
    /\ InitCore
    /\ nav = NavDefault
    /\ storageMode \in StorageModes
    /\ readyState \in ReadyStates
    /\ order \in InitOrders(build)
    /\ legacy = LegacyOff

\* the script with the Analytics module, in any storage environment
InitTel ==
    /\ build = AnalyticsBuild
    /\ InitState
    /\ NoSkipLink
    /\ nav = NavDefault
    /\ storageMode \in StorageModes
    /\ readyState = "interactive"
    /\ order = SourceOrder(build)
    /\ legacy = LegacyOff

(***************************************************************************)
(* ThemeManager                                                            *)
(***************************************************************************)
\* loadTheme(): the data-theme attribute after reading the persisted key
loadTheme == IF Truthy(storage) THEN storage ELSE dataTheme

\* mutation of ThemeManager_init: loadTheme runs although the button is absent
ThemeManager_init_alwaysLoads == loadTheme

\* ThemeManager.init(): returns before loadTheme when the button is absent
ThemeManager_init == IF dom.toggle THEN loadTheme ELSE dataTheme

\* listeners ThemeManager.init() registers
ThemeManager_listeners ==
    IF ~dom.toggle THEN {}
    ELSE IF build = "part_002" THEN {"toggle.click", "toggle.touchend"}
    ELSE {"toggle.click"}

\* mutation of NextTheme: with no explicit theme, follow the preference
NextTheme_followsPreference(current, prefers) ==
    IF current = "dark" THEN "light"
    ELSE IF current = "light" THEN "dark"
    ELSE IF prefers THEN "dark" ELSE "light"

\* switchTheme(): the three-way rule computing `next`
NextTheme(current, prefers) ==
    IF current = "dark" THEN "light"
    ELSE IF current = "light" THEN "dark"
    ELSE IF prefers THEN "light" ELSE "dark"

\* mutation of setItem: the key is removed when the value is the default
setItem_removesDefault(value) ==
    IF storageMode # "ok" THEN storage
    ELSE IF value = "light" THEN NULL ELSE value

\* localStorage.setItem(STORAGE_KEY, value): the stored value afterwards; the
\* call throws and stores nothing when storage is blocked or full
setItem(value) == IF storageMode = "ok" THEN value ELSE storage

\* switchTheme(): setAttribute('data-theme', next); setItem(STORAGE_KEY, next);
\* nothing catches what setItem throws
switchTheme ==
    /\ dataTheme' = NextTheme(dataTheme, prefersDark)
    /\ storage' = setItem(NextTheme(dataTheme, prefersDark))
    /\ uncaught' = IF storageMode = "ok" THEN uncaught
                                          ELSE uncaught \cup {"switchTheme"}

(***************************************************************************)
(* PDFExport and PrintHandler                                              *)
(***************************************************************************)
PDFExport_listeners ==
    IF ~(HasModalAndExport(build) /\ dom.exportBtn) THEN {}
    ELSE IF build = "part_002" THEN {"export.click", "export.touchend"}
    ELSE {"export.click"}

PrintHandler_listeners == {"keydown.print"}

\* the theme exportPDF() forces before scheduling the print
ForcedTheme == "light"

\* exportPDF(), synchronous part: capture currentTheme, force the light theme,
\* schedule the callback; window.print() is not called in this step
exportPDF ==
    /\ timers' = Append(timers, dataTheme)
    /\ dataTheme' = ForcedTheme
    /\ printLog' = printLog

\* mutation of PrintedTheme: the restore runs before window.print()
PrintedTheme_afterRestore(currentTheme) ==
    IF Truthy(currentTheme) THEN currentTheme ELSE NULL

\* the data-theme the page shows while window.print() runs in the callback
PrintedTheme(currentTheme) == dataTheme

\* mutation of RestoredTheme: an absent attribute is restored as 'light'
RestoredTheme_coerceLight(currentTheme) ==
    IF Truthy(currentTheme) THEN currentTheme ELSE "light"

\* the data-theme after the callback's restore: setAttribute when the captured
\* value is truthy, removeAttribute otherwise
RestoredTheme(currentTheme) == IF Truthy(currentTheme) THEN currentTheme ELSE NULL

\* mutation of exportPDF_callback: the restored theme is also persisted
exportPDF_callback_persists ==
    /\ printLog' = Append(printLog, PrintedTheme(Head(timers)))
    /\ dataTheme' = RestoredTheme(Head(timers))
    /\ timers' = Tail(timers)
    /\ storage' = IF Truthy(Head(timers)) THEN Head(timers) ELSE storage

\* the setTimeout callback of the oldest pending exportPDF(): print, restore
\* the attribute; localStorage is not touched
exportPDF_callback ==
    /\ printLog' = Append(printLog, PrintedTheme(Head(timers)))
    /\ dataTheme' = RestoredTheme(Head(timers))
    /\ timers' = Tail(timers)
    /\ storage' = storage

\* part_000's PrintHandler: window.print() directly, theme left alone
directPrint ==
    /\ printLog' = Append(printLog, dataTheme)
    /\ UNCHANGED <<dataTheme, timers>>

\* room for one more print within the explored bound
CanPrint == Len(timers) + Len(printLog) < MaxExports

(***************************************************************************)
(* CertModal                                                               *)
(***************************************************************************)
CertModal_listeners ==
    IF HasModalAndExport(build) /\ dom.modal
    THEN {"trigger.click", "close.click", "overlay.click", "keydown.escape"}
    ELSE {}

\* part_002 returns early on a falsy dataset.cert; main.js has no such guard
OpenGuard(t) == build = "part_002" => Truthy(t.cert)

\* what open(thumb) displays for a trigger
Shown(t) == [hidden |-> FALSE,
             src    |-> ToDOMString(t.cert),
             alt    |-> "Certificado " \o ToDOMString(t.title),
             title  |-> t.title]

\* mutation of open: a visible modal keeps the content it shows
open_keepContentWhenOpen(t) ==
    IF OpenGuard(t)
    THEN /\ modal' = IF modal.hidden THEN Shown(t) ELSE modal
         /\ overflow' = "hidden"
         /\ focus' = "closeBtn"
    ELSE UNCHANGED modalVars

\* mutation of open: the page scroll is not suspended
open_noScrollLock(t) ==
    IF OpenGuard(t)
    THEN /\ modal' = [hidden |-> FALSE,
                      src    |-> ToDOMString(t.cert),
                      alt    |-> "Certificado " \o ToDOMString(t.title),
                      title  |-> t.title]
         /\ overflow' = overflow
         /\ focus' = "closeBtn"
    ELSE UNCHANGED modalVars

\* open(thumb)
open(t) ==
    IF OpenGuard(t)
    THEN /\ modal' = [hidden |-> FALSE,
                      src    |-> ToDOMString(t.cert),
                      alt    |-> "Certificado " \o ToDOMString(t.title),
                      title  |-> t.title]
         /\ overflow' = "hidden"
         /\ focus' = "closeBtn"
    ELSE UNCHANGED modalVars

\* close() never calls focus(): the focus holder stays where it is, except
\* that a browser may reset focus to the body when the focused close control
\* becomes hidden (focus fixup; some engines leave it on the hidden element)
FocusAfterHide == IF focus = "closeBtn" THEN {"closeBtn", "body"} ELSE {focus}

\* mutation of close: the page scroll is not restored
close_keepOverflow ==
    /\ modal' = [modal EXCEPT !.hidden = TRUE]
    /\ overflow' = overflow
    /\ focus' \in FocusAfterHide

\* mutation of close: the hidden flag is flipped instead of set
close_toggleHidden ==
    /\ modal' = [modal EXCEPT !.hidden = ~modal.hidden]
    /\ overflow' = IF modal.hidden THEN "hidden" ELSE ""
    /\ focus' \in FocusAfterHide

\* close(): hide the modal, restore the page scroll
close ==
    /\ modal' = [modal EXCEPT !.hidden = TRUE]
    /\ overflow' = ""
    /\ focus' \in FocusAfterHide

(***************************************************************************)
(* NavHighlight                                                            *)
(***************************************************************************)
\* mutation of NavHighlight_init: no early return on an empty collection
NavHighlight_init_noGuard == Range(nav.sections)

\* NavHighlight.init(): the sections handed to observer.observe(); none when
\* there is no .nav__link or no section[id]
NavHighlight_init ==
    IF Len(nav.links) = 0 \/ Len(nav.sections) = 0
    THEN {}
    ELSE Range(nav.sections)

\* mutation of SetActive: non-matching links keep the marker
SetActive_neverRemoves(links, active, id) ==
    active \cup { i \in DOMAIN links : links[i] = "#" \o id }

\* mutation of SetActive: classList.toggle instead of classList.add
SetActive_toggles(links, active, id) ==
    LET match == { i \in DOMAIN links : links[i] = "#" \o id }
    IN  match \ active

\* setActive(id): every link whose href is `#${id}` gets the marker added,
\* every other link gets it removed
SetActive(links, active, id) ==
    LET add    == { i \in DOMAIN links : links[i] = "#" \o id }
        remove == { i \in DOMAIN links : links[i] # "#" \o id }
    IN  (active \cup add) \ remove

\* mutation of HandleIntersect: entry.isIntersecting is not tested
RECURSIVE HandleIntersect_ignoresFlag(_, _, _)
HandleIntersect_ignoresFlag(links, active, entries) ==
    IF entries = <<>> THEN active
    ELSE HandleIntersect_ignoresFlag(links,
                SetActive(links, active, Head(entries).target), Tail(entries))

\* mutation of HandleIntersect: an entry that is not intersecting removes the
\* marker from the links of its section
RECURSIVE HandleIntersect_clearsOnLeave(_, _, _)
HandleIntersect_clearsOnLeave(links, active, entries) ==
    IF entries = <<>> THEN active
    ELSE HandleIntersect_clearsOnLeave(links,
                IF Head(entries).isIntersecting
                THEN SetActive(links, active, Head(entries).target)
                ELSE active \ { i \in DOMAIN links :
                                  links[i] = "#" \o Head(entries).target },
                Tail(entries))

\* mutation of HandleIntersect: only the first intersecting entry is applied
HandleIntersect_firstWins(links, active, entries) ==
    LET hits == { i \in DOMAIN entries : entries[i].isIntersecting }
    IN  IF hits = {} THEN active
        ELSE SetActive(links, active,
                 entries[CHOOSE i \in hits : \A j \in hits : i <= j].target)

\* handleIntersect(entries): entries.forEach in order, setActive for each
\* entry that is intersecting
RECURSIVE HandleIntersect(_, _, _)
HandleIntersect(links, active, entries) ==
    IF entries = <<>> THEN active
    ELSE HandleIntersect(links,
                IF Head(entries).isIntersecting
                THEN SetActive(links, active, Head(entries).target)
                ELSE active,
                Tail(entries))

\* an IntersectionObserverEntry of an observed section
Entries(targets) == [target : targets, isIntersecting : BOOLEAN]
\* the batches one callback can deliver
Batches(targets) == UNION { [1..n -> Entries(targets)] : n \in 1..MaxBatch }

\* the target of the last intersecting entry of a batch, `none` if there is none
LastIntersecting(entries, none) ==
    LET hits == { i \in DOMAIN entries : entries[i].isIntersecting }
    IN  IF hits = {} THEN none
        ELSE entries[CHOOSE i \in hits : \A j \in hits : j <= i].target

(***************************************************************************)
(* SmoothScroll                                                            *)
(***************************************************************************)
\* the a[href^="#"] links of the page other than the skip link: the
\* navigation links, a bare '#', a link to an id no element has, a link whose
\* href is not a valid selector
AnchorHrefs == Range(nav.links) \cup {"#", "#missing"} \cup InvalidSelectors

\* SmoothScroll.init(): a click listener on every in-page anchor
SmoothScroll_listeners == {"anchor.click"}

\* document.querySelector(href): the id of the element found, NULL when no
\* element matches, "throws" (SyntaxError) when href is not a valid selector
QuerySelector(href) ==
    IF href \in InvalidSelectors THEN "throws"
    ELSE IF href = SkipHref THEN (IF dom.main THEN SkipTarget ELSE NULL)
    ELSE IF \E id \in Range(nav.sections) : href = "#" \o id
    THEN CHOOSE id \in Range(nav.sections) : href = "#" \o id
    ELSE NULL

\* mutation of Scrolls: the result of querySelector is not tested
Scrolls_noTargetCheck(href) == href # "#" /\ QuerySelector(href) # "throws"

\* the click handler goes on to preventDefault, scrollIntoView and
\* pushState: href is not '#' and querySelector found an element
Scrolls(href) ==
    /\ href # "#"
    /\ QuerySelector(href) # "throws"
    /\ QuerySelector(href) # NULL

(***************************************************************************)
(* Accessibility                                                           *)
(***************************************************************************)
\* Accessibility.init(): a click listener on the skip link when the page has
\* one (the live region it also creates is not part of the state)
Accessibility_listeners == IF dom.skipLink THEN {"skiplink.click"} ELSE {}

\* the scrollIntoView calls of one click on the skip link, in the order the
\* calls of init() registered the two listeners (both scroll to #main)
SkipScrolls ==
    (IF "anchor.click" \in listeners /\ Scrolls(SkipHref)
     THEN <<QuerySelector(SkipHref)>> ELSE <<>>)
    \o (IF "skiplink.click" \in listeners /\ dom.main
        THEN <<SkipTarget>> ELSE <<>>)

\* the listeners of one click on the skip link that call e.preventDefault()
SkipPrevents ==
    (IF "anchor.click" \in listeners /\ Scrolls(SkipHref)
     THEN {"SmoothScroll"} ELSE {})
    \cup (IF "skiplink.click" \in listeners THEN {"Accessibility"} ELSE {})

\* the focus holder after one click on the skip link: main.focus() when
\* Accessibility's listener is installed and #main exists
SkipFocus ==
    IF "skiplink.click" \in listeners /\ dom.main THEN SkipTarget ELSE focus

(***************************************************************************)
(* Touch activation (part_002 registers touchend next to click)            *)
(***************************************************************************)
\* mutation of TouchPrevented: the touchend handler leaves the default alone
TouchPrevented_never(target) == FALSE

\* the touchend handler calls e.preventDefault(), so the browser dispatches
\* no click for this tap; without a touchend handler the click follows
TouchPrevented(target) == (target \o ".touchend") \in listeners

(***************************************************************************)
(* Legacy script: DarkMode and ThemeSelector                               *)
(***************************************************************************)
\* DarkMode.applyTheme(theme): class, data-theme attribute, and the
\* preference key is written on every call
applyTheme(l, theme) ==
    [l EXCEPT !.darkClass = (theme = "dark"),
              !.dataTheme = IF theme = "dark" THEN "dark" ELSE "light",
              !.saved = theme]

\* DarkMode.detectSystemPreference(): the saved preference, else the system's
detectSystemPreference(l) ==
    IF Truthy(l.saved) THEN applyTheme(l, l.saved)
    ELSE applyTheme(l, IF l.system THEN "dark" ELSE "light")

\* this.THEMES[theme] is truthy: an own key of the literal or a name it
\* inherits from Object.prototype
KnownTheme(theme) == theme \in Palettes \cup PrototypeNames

\* ThemeSelector.setTheme(theme, save): nothing when THEMES[theme] is falsy
setTheme(l, theme, save) ==
    IF ~KnownTheme(theme) THEN l
    ELSE [l EXCEPT !.dataTheme = theme,
                   !.palette = IF save THEN theme ELSE l.palette]

\* ThemeSelector.loadTheme(): the saved palette or the default, not saved
ThemeSelector_loadTheme(l) ==
    setTheme(l, IF Truthy(l.palette) THEN l.palette ELSE DefaultPalette, FALSE)

\* the 'change' listener of the colour-scheme media query: applies the new
\* system scheme only while no preference is stored
onSystemChange(l, matches) ==
    IF ~Truthy(l.saved) THEN applyTheme(l, IF matches THEN "dark" ELSE "light")
    ELSE l

\* DarkMode.toggle(): a public function the script itself never calls (the
\* listener of setupToggleButton is commented out)
DarkMode_toggle(l) ==
    applyTheme(l, IF (IF Truthy(l.saved) THEN l.saved ELSE "light") = "dark"
                  THEN "light" ELSE "dark")

\* the listeners the legacy onDOMReady callback registers (those whose
\* handlers change the modelled state)
LegacyListeners ==
    {"legacy.anchor.click", "legacy.keydown.print", "legacy.scheme.change",
     "legacy.option.click"}
    \cup (IF dom.skipLink THEN {"legacy.skiplink.click"} ELSE {})

\* the a[href^="#"] links of the legacy page other than the skip link
LegacyAnchorHrefs == AnchorHrefs

\* document.querySelector(href) on the legacy page
LegacyQuerySelector(href) ==
    IF href = LegacySkipHref THEN (IF dom.main THEN LegacySkipTarget ELSE NULL)
    ELSE QuerySelector(href)

\* the legacy SmoothScroll listener returns before e.preventDefault()
LegacySkipped(href) == href = "#" \/ href = LegacySkipHref

\* the legacy SmoothScroll listener goes on to scrollIntoView, focus and
\* pushState: not skipped and querySelector found an element
LegacyScrolls(href) ==
    /\ ~LegacySkipped(href)
    /\ LegacyQuerySelector(href) # "throws"
    /\ LegacyQuerySelector(href) # NULL

(***************************************************************************)
(* function init() and the script's last statement                         *)
(***************************************************************************)
\* the init() of module w throws: ThemeManager.init reaches loadTheme, whose
\* localStorage access throws when storage is blocked; no other init calls
\* anything that can throw on this page
Throws(w) == w = "ThemeManager" /\ dom.toggle /\ storageMode = "denied"

\* the modules whose init() returns normally when init() calls them in order
\* o: init() has no try/catch, so the first throw ends it
RECURSIVE Completed(_)
Completed(o) ==
    IF o = <<>> \/ Throws(Head(o)) THEN {}
    ELSE {Head(o)} \cup Completed(Tail(o))

\* an exception leaves init()
Aborted(o) == \E i \in DOMAIN o : Throws(o[i])

\* the listeners the init() of module w registers
WidgetListeners(w) ==
    IF w = "ThemeManager" THEN ThemeManager_listeners
    ELSE IF w = "CertModal" THEN CertModal_listeners
    ELSE IF w = "PDFExport" THEN PDFExport_listeners
    ELSE IF w = "PrintHandler" THEN PrintHandler_listeners
    ELSE IF w = "SmoothScroll" THEN SmoothScroll_listeners
    ELSE IF w = "Accessibility" THEN Accessibility_listeners
    ELSE {}

\* what init() leaves behind when it calls the modules in order o
InitOutcome(o) ==
    [ widgets   |-> Completed(o),
      listeners |-> UNION { WidgetListeners(w) : w \in Completed(o) },
      dataTheme |-> IF "ThemeManager" \in Completed(o) THEN ThemeManager_init
                                                        ELSE dataTheme,
      observed  |-> IF "NavHighlight" \in Completed(o) THEN NavHighlight_init
                                                        ELSE {},
      dataJs    |-> ~Aborted(o),
      posted    |-> "Analytics" \in Completed(o) ]

\* mutation of RunsNow: init is called without testing readyState
RunsNow_always == TRUE

\* the script's last statement: init() is called at once unless
\* document.readyState is 'loading'
RunsNow == readyState # "loading"

(***************************************************************************)
(* Analytics                                                               *)
(***************************************************************************)
\* mutation of RequestsAfter: a failed request is sent again
RequestsAfter_retryOnFailure(outcome) ==
    IF outcome # "2xx" /\ requests < 2 THEN requests + 1 ELSE requests

\* trackVisit() after the awaited fetch settles: no further request
RequestsAfter(outcome) == requests

\* trackVisit() after the awaited fetch settles: console.log for response.ok,
\* console.error in the catch block, nothing for a response that is not ok
TrackLogAfter(outcome) ==
    IF outcome = "2xx" THEN Append(trackLog, "Visit tracked")
    ELSE IF outcome = "reject"
    THEN Append(trackLog, "Analytics tracking failed:")
    ELSE trackLog

\* mutation of TrackUncaught: the await is not inside try/catch
TrackUncaught_noCatch(outcome) ==
    IF outcome = "reject" THEN uncaught \cup {"trackVisit"} ELSE uncaught

\* trackVisit(): the catch block takes every rejection, nothing escapes
TrackUncaught(outcome) == uncaught

(***************************************************************************)
(* History variables                                                       *)
(***************************************************************************)
RunAfterToggle == IF run < MaxToggles THEN run + 1 ELSE RunOff
BurstAfterToggle ==
    IF timers # <<>> THEN [burst EXCEPT !.toggled = TRUE] ELSE NoBurst
BurstAfterExport ==
    IF timers # <<>> THEN [burst EXCEPT !.n = @ + 1]
    ELSE [n |-> 1, base |-> dataTheme, toggled |-> FALSE]

(***************************************************************************)
(* Actions: one per event-loop step                                        *)
(***************************************************************************)
\* function init(): every module's init in order, then the data-js marker;
\* Analytics.init() starts trackVisit(), which issues the POST and returns
init ==
    /\ inited' = TRUE
    /\ initRuns' = initRuns + 1
    /\ script' = "done"
    /\ widgets' = InitOutcome(order).widgets
    /\ dataTheme' = InitOutcome(order).dataTheme
    /\ listeners' = InitOutcome(order).listeners
    /\ observed' = InitOutcome(order).observed
    /\ dataJs' = InitOutcome(order).dataJs
    /\ uncaught' = IF Aborted(order) THEN uncaught \cup {"init"} ELSE uncaught
    /\ requests' = IF InitOutcome(order).posted THEN requests + 1 ELSE requests
    /\ inflight' = InitOutcome(order).posted
    /\ last' = "init"
    /\ wasOpen' = ~modal.hidden
    /\ UNCHANGED <<build, dom, prefersDark, storage, printVars, modalVars, run, burst,
                   focusBefore, nav, navActive, lastBatch, lastSeen>>
    /\ UNCHANGED <<storageMode, order, trackLog, extVars>>

\* the script runs on a document that is not loading: init() at once
PageInit ==
    /\ build # LegacyBuild
    /\ script = "start"
    /\ RunsNow
    /\ init
    /\ UNCHANGED readyState

\* the script runs while the document is loading: init is registered for
\* DOMContentLoaded
DeferInit ==
    /\ build # LegacyBuild
    /\ script = "start"
    /\ ~RunsNow
    /\ script' = "deferred"
    /\ last' = "defer"
    /\ wasOpen' = ~modal.hidden
    /\ UNCHANGED <<pageVars, themeVars, printVars, modalVars, run, burst,
                   focusBefore, navVars, envVars, widgets, dataJs, uncaught,
                   initRuns, telVars, extVars>>

\* the document finishes parsing: readyState leaves 'loading' and the
\* DOMContentLoaded listeners run
DOMContentLoaded ==
    /\ readyState = "loading"
    /\ readyState' = "interactive"
    /\ IF script = "deferred"
       THEN init
       ELSE /\ last' = "ready"
            /\ wasOpen' = ~modal.hidden
            /\ UNCHANGED <<pageVars, themeVars, printVars, modalVars, run, burst,
                           focusBefore, navVars, storageMode, order, loadVars,
                           telVars, extVars>>

\* the awaited fetch of trackVisit() settles
TrackSettle(outcome) ==
    /\ inflight
    /\ inflight' = FALSE
    /\ requests' = RequestsAfter(outcome)
    /\ trackLog' = TrackLogAfter(outcome)
    /\ uncaught' = TrackUncaught(outcome)
    /\ last' = "settle"
    /\ wasOpen' = ~modal.hidden
    /\ UNCHANGED <<pageVars, themeVars, printVars, modalVars, run, burst,
                   focusBefore, navVars, envVars, script, widgets, dataJs,
                   initRuns, extVars>>

\* the listener of #theme-toggle (click and, in part_002, touchend)
ToggleHandler ==
    /\ switchTheme
    /\ last' = "toggle"
    /\ run' = RunAfterToggle
    /\ burst' = BurstAfterToggle
    /\ wasOpen' = ~modal.hidden
    /\ UNCHANGED <<navVars, envVars, script, widgets, dataJs, initRuns, telVars>>
    /\ UNCHANGED <<pageVars, printVars, modalVars, focusBefore, scroll, legacy>>

\* the listener of #export-pdf (click and, in part_002, touchend)
ExportHandler ==
    /\ CanPrint
    /\ exportPDF
    /\ last' = "export"
    /\ run' = RunOff
    /\ burst' = BurstAfterExport
    /\ wasOpen' = ~modal.hidden
    /\ UNCHANGED <<navVars, envVars, loadVars, telVars, scroll, legacy>>
    /\ UNCHANGED <<pageVars, storage, modalVars, focusBefore>>

\* click on #theme-toggle
ToggleClick ==
    /\ "toggle.click" \in listeners
    /\ ToggleHandler
    /\ UNCHANGED tap

\* click on #export-pdf
ExportClick ==
    /\ "export.click" \in listeners
    /\ ExportHandler
    /\ UNCHANGED tap

\* a step whose event has no listener: only the history changes
NoHandler(name) ==
    /\ last' = name
    /\ wasOpen' = ~modal.hidden
    /\ UNCHANGED <<pageVars, themeVars, printVars, modalVars, run, burst,
                   focusBefore, navVars, envVars, loadVars, telVars, scroll,
                   legacy>>

\* the user taps #theme-toggle or #export-pdf: touchend is dispatched; its
\* listener, where registered, runs and prevents the default, so no click
\* follows; otherwise the browser goes on to dispatch a click
TouchEnd(target) ==
    /\ inited
    /\ tap.pending = "none"
    /\ IF (target \o ".touchend") \in listeners
       THEN /\ IF target = "toggle" THEN ToggleHandler ELSE ExportHandler
            /\ tap' = [target  |-> target,
                       pending |-> IF TouchPrevented(target) THEN "none"
                                                             ELSE target,
                       calls   |-> 1,
                       before  |-> dataTheme]
       ELSE /\ NoHandler("touch")
            /\ tap' = [target |-> target, pending |-> target, calls |-> 0,
                       before |-> NULL]

\* the click that follows a tap whose touchend was not prevented
TapClick ==
    /\ tap.pending # "none"
    /\ IF (tap.pending \o ".click") \in listeners
       THEN /\ IF tap.pending = "toggle" THEN ToggleHandler ELSE ExportHandler
            /\ tap' = [tap EXCEPT !.pending = "none", !.calls = @ + 1,
                                  !.before = IF tap.calls = 0 THEN dataTheme
                                                              ELSE @]
       ELSE /\ NoHandler("tapclick")
            /\ tap' = [tap EXCEPT !.pending = "none"]

\* room for one more history entry within the explored bound
CanPush == Len(scroll.pushed) < MaxPushes

\* click on an in-page anchor: SmoothScroll's listener
AnchorClick(href) ==
    /\ "anchor.click" \in listeners
    /\ Scrolls(href) => CanPush
    /\ scroll' = IF Scrolls(href)
                 THEN [prevented  |-> TRUE,
                       scrolledTo |-> Append(scroll.scrolledTo, QuerySelector(href)),
                       pushed     |-> Append(scroll.pushed, href),
                       by         |-> {"SmoothScroll"}]
                 ELSE [scroll EXCEPT !.prevented = FALSE, !.by = {}]
    /\ uncaught' = IF href # "#" /\ QuerySelector(href) = "throws"
                   THEN uncaught \cup {"smoothScroll"} ELSE uncaught
    /\ last' = "anchor"
    /\ wasOpen' = ~modal.hidden
    /\ UNCHANGED <<pageVars, themeVars, printVars, modalVars, run, burst,
                   focusBefore, navVars, envVars, script, widgets, dataJs,
                   initRuns, telVars, tap, legacy>>

\* room for one more click's scrollIntoView calls within the explored bound
CanScroll == Len(scroll.scrolledTo) < 2 * MaxPushes

\* click on the skip link (a.skip-link, href '#main'): the link matches
\* a[href^="#"], so SmoothScroll's listener runs on it as well as the one
\* Accessibility.init registered
SkipClick ==
    /\ inited
    /\ dom.skipLink
    /\ ("anchor.click" \in listeners /\ Scrolls(SkipHref)) => CanPush
    /\ SkipScrolls # <<>> => CanScroll
    /\ scroll' = [prevented  |-> SkipPrevents # {},
                  scrolledTo |-> scroll.scrolledTo \o SkipScrolls,
                  pushed     |-> IF "SmoothScroll" \in SkipPrevents
                                 THEN Append(scroll.pushed, SkipHref)
                                 ELSE scroll.pushed,
                  by         |-> SkipPrevents]
    /\ focus' = SkipFocus
    /\ last' = "skip"
    /\ wasOpen' = ~modal.hidden
    /\ UNCHANGED <<pageVars, themeVars, printVars, modal, overflow, run, burst,
                   focusBefore, navVars, envVars, loadVars, telVars, tap, legacy>>

\* the variables of the page no handler of the legacy script writes
legacyFrame == <<build, dom, prefersDark, inited, nav, themeVars, timers,
                 modal, overflow, run, burst, wasOpen, focusBefore, navVars,
                 envVars, script, widgets, dataJs, initRuns, telVars, tap>>

\* the legacy script's onDOMReady callback: ThemeSelector.init,
\* SmoothScroll.init, PrintHandler.init, DarkMode.init
\* (detectSystemPreference, setupMediaQuery), Accessibility.init
LegacyInit ==
    /\ build = LegacyBuild
    /\ ~legacy.inited
    /\ legacy' = [detectSystemPreference(ThemeSelector_loadTheme(legacy))
                     EXCEPT !.inited = TRUE]
    /\ listeners' = LegacyListeners
    /\ last' = "legacy.init"
    /\ UNCHANGED <<legacyFrame, printLog, focus, uncaught, scroll>>

\* the system colour scheme changes: the media query's change listener runs
SystemChange ==
    /\ build = LegacyBuild
    /\ legacy' = IF legacy.inited
                 THEN onSystemChange([legacy EXCEPT !.system = ~legacy.system],
                                     ~legacy.system)
                 ELSE [legacy EXCEPT !.system = ~legacy.system]
    /\ last' = "legacy.system"
    /\ UNCHANGED <<legacyFrame, listeners, printLog, focus, uncaught, scroll>>

\* a call of DarkMode.toggle() from the page: only where the page holds a
\* caller, main-old.js wires no control to it
LegacyToggle ==
    /\ legacy.inited
    /\ legacy.hasCaller
    /\ legacy' = [DarkMode_toggle(legacy) EXCEPT !.userChose = TRUE]
    /\ last' = "legacy.toggle"
    /\ UNCHANGED <<legacyFrame, listeners, printLog, focus, uncaught, scroll>>

\* click on a .theme-option of the ThemeSelector menu whose data-theme is p:
\* setTheme(p, true), then the announcement reads THEMES[p].name, which
\* throws a TypeError when THEMES[p] is undefined
PaletteClick(p) ==
    /\ "legacy.option.click" \in listeners
    /\ legacy' = setTheme(legacy, p, TRUE)
    /\ uncaught' = IF KnownTheme(p) THEN uncaught
                                    ELSE uncaught \cup {"optionClick"}
    /\ last' = "legacy.option"
    /\ UNCHANGED <<legacyFrame, listeners, printLog, focus, scroll>>

\* click on an in-page anchor of the legacy page: '#' and '#main-content'
\* are skipped; otherwise the default is prevented before the target is
\* looked up, and a target found is scrolled to, focused (it takes focus
\* when it is focusable) and pushed
LegacyAnchorClick(href) ==
    /\ "legacy.anchor.click" \in listeners
    /\ LegacyScrolls(href) => CanPush
    /\ scroll' = IF LegacyScrolls(href)
                 THEN [prevented  |-> TRUE,
                       scrolledTo |-> Append(scroll.scrolledTo,
                                             LegacyQuerySelector(href)),
                       pushed     |-> Append(scroll.pushed, href),
                       by         |-> {"SmoothScroll"}]
                 ELSE IF LegacySkipped(href)
                 THEN [scroll EXCEPT !.prevented = FALSE, !.by = {}]
                 ELSE [scroll EXCEPT !.prevented = TRUE, !.by = {"SmoothScroll"}]
    /\ focus' \in IF LegacyScrolls(href)
                   THEN {focus, LegacyQuerySelector(href)} ELSE {focus}
    /\ uncaught' = IF ~LegacySkipped(href) /\ LegacyQuerySelector(href) = "throws"
                   THEN uncaught \cup {"smoothScroll"} ELSE uncaught
    /\ last' = "legacy.anchor"
    /\ UNCHANGED <<legacyFrame, listeners, printLog, legacy>>

\* click on the legacy page's skip link (href '#main-content'): SmoothScroll's
\* listener returns at once, Accessibility's prevents the default and, when
\* #main-content exists, focuses it and scrolls to it
LegacySkipClick ==
    /\ "legacy.skiplink.click" \in listeners
    /\ dom.main => CanScroll
    /\ scroll' = [scroll EXCEPT
                    !.prevented = TRUE,
                    !.by = {"Accessibility"},
                    !.scrolledTo = IF dom.main THEN Append(@, LegacySkipTarget)
                                               ELSE @]
    /\ focus' = IF dom.main THEN LegacySkipTarget ELSE focus
    /\ last' = "legacy.skip"
    /\ UNCHANGED <<legacyFrame, listeners, printLog, uncaught, legacy>>

\* keydown on the legacy page: Ctrl+P or Cmd+P calls window.print() at once
LegacyKeyDown(key, ctrlOrMeta) ==
    /\ "legacy.keydown.print" \in listeners
    /\ IF ctrlOrMeta /\ key = "p"
       THEN /\ CanPrint
            /\ printLog' = Append(printLog, legacy.dataTheme)
            /\ last' = "legacy.print"
       ELSE /\ UNCHANGED printLog
            /\ last' = "legacy.key"
    /\ UNCHANGED <<legacyFrame, listeners, focus, uncaught, scroll, legacy>>

\* a due exportPDF timeout runs
TimerFire ==
    /\ timers # <<>>
    /\ exportPDF_callback
    /\ last' = "timer"
    /\ wasOpen' = ~modal.hidden
    /\ UNCHANGED <<navVars, envVars, loadVars, telVars, extVars>>
    /\ UNCHANGED <<pageVars, modalVars, run, burst, focusBefore>>

\* click on a certificate trigger
TriggerClick(t) ==
    /\ "trigger.click" \in listeners
    /\ open(t)
    /\ last' = IF OpenGuard(t) THEN "open" ELSE "open.noop"
    /\ wasOpen' = ~modal.hidden
    /\ UNCHANGED <<navVars, envVars, loadVars, telVars, extVars>>
    /\ focusBefore' = IF OpenGuard(t) /\ modal.hidden THEN focus ELSE focusBefore
    /\ UNCHANGED <<pageVars, themeVars, printVars, run, burst>>

\* click on the modal's close control
CloseClick ==
    /\ "close.click" \in listeners
    /\ close
    /\ last' = "close"
    /\ wasOpen' = ~modal.hidden
    /\ UNCHANGED <<navVars, envVars, loadVars, telVars, extVars>>
    /\ UNCHANGED <<pageVars, themeVars, printVars, run, burst, focusBefore>>

\* click on the modal's overlay
OverlayClick ==
    /\ "overlay.click" \in listeners
    /\ close
    /\ last' = "close"
    /\ wasOpen' = ~modal.hidden
    /\ UNCHANGED <<navVars, envVars, loadVars, telVars, extVars>>
    /\ UNCHANGED <<pageVars, themeVars, printVars, run, burst, focusBefore>>

\* mutation of KeyDown: CertModal's listener does not test e.key
KeyDown_anyKeyCloses(key, ctrlOrMeta) ==
    /\ inited
    /\ IF "keydown.escape" \in listeners /\ ~modal.hidden
       THEN close
       ELSE UNCHANGED modalVars
    /\ IF "keydown.print" \in listeners /\ ctrlOrMeta /\ key = "p"
       THEN /\ CanPrint
            /\ IF build = "part_000" THEN directPrint ELSE exportPDF
            /\ last' = IF build = "part_000" THEN "print" ELSE "export"
            /\ run' = IF build = "part_000" THEN run ELSE RunOff
            /\ burst' = IF build = "part_000" THEN burst ELSE BurstAfterExport
       ELSE /\ UNCHANGED <<dataTheme, printVars, run, burst>>
            /\ last' = IF "keydown.escape" \in listeners /\ ~modal.hidden
                       THEN "close" ELSE "key"
    /\ wasOpen' = ~modal.hidden
    /\ UNCHANGED <<navVars, envVars, loadVars, telVars, extVars>>
    /\ UNCHANGED <<pageVars, storage, focusBefore>>

\* keydown on the document: CertModal's listener, then PrintHandler's
KeyDown(key, ctrlOrMeta) ==
    /\ inited
    /\ IF "keydown.escape" \in listeners /\ key = "Escape" /\ ~modal.hidden
       THEN close
       ELSE UNCHANGED modalVars
    /\ IF "keydown.print" \in listeners /\ ctrlOrMeta /\ key = "p"
       THEN /\ CanPrint
            /\ IF build = "part_000" THEN directPrint ELSE exportPDF
            /\ last' = IF build = "part_000" THEN "print" ELSE "export"
            /\ run' = IF build = "part_000" THEN run ELSE RunOff
            /\ burst' = IF build = "part_000" THEN burst ELSE BurstAfterExport
       ELSE /\ UNCHANGED <<dataTheme, printVars, run, burst>>
            /\ last' = IF "keydown.escape" \in listeners /\ key = "Escape"
                          /\ ~modal.hidden
                       THEN "close" ELSE "key"
    /\ wasOpen' = ~modal.hidden
    /\ UNCHANGED <<navVars, envVars, loadVars, telVars, extVars>>
    /\ UNCHANGED <<pageVars, storage, focusBefore>>

\* the user moves keyboard focus (Tab, Shift+Tab, pointer) to an element of
\* the page or, while the modal is visible, to its close control; the script
\* registers no handler that intercepts or redirects it
UserFocus(el) ==
    /\ inited
    /\ el = "closeBtn" => ~modal.hidden
    /\ focus' = el
    /\ last' = "focus"
    /\ wasOpen' = ~modal.hidden
    /\ UNCHANGED <<navVars, envVars, loadVars, telVars, extVars>>
    /\ UNCHANGED <<pageVars, themeVars, printVars, modal, overflow, run, burst,
                   focusBefore>>

Next ==
    \/ PageInit
    \/ ToggleClick
    \/ ExportClick
    \/ TimerFire
    \/ \E t \in Triggers : TriggerClick(t)
    \/ CloseClick
    \/ OverlayClick
    \/ \E key \in Keys, ctrlOrMeta \in BOOLEAN : KeyDown(key, ctrlOrMeta)
    \/ \E el \in FocusTargets : UserFocus(el)

\* the IntersectionObserver callback delivers a batch of entries
Intersect(batch) ==
    /\ inited
    /\ navActive' = HandleIntersect(nav.links, navActive, batch)
    /\ lastBatch' = batch
    /\ lastSeen' = LastIntersecting(batch, lastSeen)
    /\ last' = "intersect"
    /\ wasOpen' = ~modal.hidden
    /\ UNCHANGED <<pageVars, themeVars, printVars, modalVars, run, burst,
                   focusBefore, observed, envVars, loadVars, telVars, extVars>>

\* the scroll-spy steps
NextNav ==
    \/ PageInit
    \/ \E batch \in Batches(observed) : Intersect(batch)

\* page load in any environment, then theme toggles
NextLoad ==
    \/ PageInit
    \/ DeferInit
    \/ DOMContentLoaded
    \/ ToggleClick
    \/ SkipClick

\* the page with telemetry: load, the request's outcome, widget handlers
NextTel ==
    \/ PageInit
    \/ \E outcome \in Outcomes : TrackSettle(outcome)
    \/ ToggleClick
    \/ \E t \in ValidTriggers : TriggerClick(t)
    \/ CloseClick
    \/ \E entry \in Entries(observed) : Intersect(<<entry>>)

\* clicks on in-page anchors and the skip link next to theme toggles and
\* scroll-spy callbacks
NextScroll ==
    \/ PageInit
    \/ \E href \in AnchorHrefs : AnchorClick(href)
    \/ SkipClick
    \/ ToggleClick
    \/ \E entry \in Entries(observed) : Intersect(<<entry>>)

\* the skip link next to the modal: its click moves focus to #main, also
\* from the close control of the visible modal
NextSkip ==
    \/ PageInit
    \/ SkipClick
    \/ \E href \in AnchorHrefs : AnchorClick(href)
    \/ \E t \in ValidTriggers : TriggerClick(t)
    \/ CloseClick
    \/ \E el \in FocusTargets : UserFocus(el)

\* taps on the toggle and the export button
NextTap ==
    \/ PageInit
    \/ \E target \in TapTargets : TouchEnd(target)
    \/ TapClick
    \/ TimerFire

\* the legacy page
NextLegacy ==
    \/ LegacyInit
    \/ SystemChange
    \/ LegacyToggle
    \/ \E p \in PaletteOptions : PaletteClick(p)

\* the legacy page's scroll, skip link and print handlers
NextLegacyPage ==
    \/ LegacyInit
    \/ SystemChange
    \/ \E href \in LegacyAnchorHrefs : LegacyAnchorClick(href)
    \/ LegacySkipClick
    \/ \E key \in Keys, ctrlOrMeta \in BOOLEAN : LegacyKeyDown(key, ctrlOrMeta)

\* theme, print and modal handlers on the default page
Spec == Init /\ [][Next]_vars

\* SmoothScroll's and Accessibility's click handlers
SpecScroll == InitScroll /\ [][NextScroll]_vars

\* the skip link and the modal
SpecSkip == InitSkip /\ [][NextSkip]_vars

\* touch activation
SpecTap == Init /\ [][NextTap]_vars

\* the legacy script
SpecLegacy == InitLegacy /\ [][NextLegacy]_vars

\* the legacy script's other handlers
SpecLegacyPage == InitLegacyPage /\ [][NextLegacyPage]_vars

\* page load with storage faults, deferred start and reordered init calls
SpecLoad == InitLoad /\ [][NextLoad]_vars

\* the page with the telemetry call
SpecTel == InitTel /\ [][NextTel]_vars

\* scroll-spy handlers on every navigation markup
SpecNav == InitNav /\ [][NextNav]_vars

(***************************************************************************)
(* Properties                                                              *)
(***************************************************************************)
PrefTheme == IF prefersDark THEN "dark" ELSE "light"
Opposite(th) == IF th = "dark" THEN "light" ELSE "dark"
\* an export group is over: every callback of it has run
BurstDone == burst.n >= 1 /\ timers = <<>>

\* C1: whenever init has run and no export callback is pending, the applied
\* theme and the persisted theme agree (both absent or the same value).
C1_ThemeConsistent ==
    (inited /\ dom.toggle /\ timers = <<>>) => dataTheme = storage

\* C2: from an unset start, after the k-th consecutive switchTheme the applied
\* and the persisted theme both equal the inverse of the preference for odd k
\* and the preference for even k.
C2_ToggleAlternation ==
    (run \in 1..MaxToggles) =>
        /\ dataTheme = storage
        /\ dataTheme = IF run % 2 = 1 THEN Opposite(PrefTheme) ELSE PrefTheme

C2_Witness ==
    /\ run = 3 /\ prefersDark /\ dataTheme = "light" /\ storage = "light"

\* C3: one exportPDF with no other theme change before its callback: once the
\* callback has run the applied theme is what it was before the invocation
\* (absent stays absent).
C3_ExportRoundTrip ==
    (BurstDone /\ burst.n = 1 /\ ~burst.toggled) => dataTheme = burst.base

C3_Witness ==
    /\ BurstDone /\ burst.n = 1 /\ ~burst.toggled
    /\ burst.base = NULL /\ dataTheme = NULL /\ printLog = <<"light">>

\* C4: two or more exportPDF invocations issued before the earlier callbacks
\* fire: after all callbacks the applied theme is the one before the first.
C4_RapidExportsRestore ==
    (BurstDone /\ burst.n >= 2 /\ ~burst.toggled) => dataTheme = burst.base

\* C5: a switchTheme between exportPDF and its callback is not overwritten:
\* after the callback the applied theme is the one switchTheme persisted.
C5_ToggleNotClobbered ==
    (BurstDone /\ burst.n = 1 /\ burst.toggled) => dataTheme = storage

\* C6: an exportPDF step captures the theme, forces 'light' and does not
\* print; the print happens in a later step, the callback of that invocation,
\* which prints under the theme it finds and only then restores the captured
\* one.
C6_ExportOrdering ==
    [][ /\ (Len(timers') > Len(timers)) =>
              /\ timers' = Append(timers, dataTheme)
              /\ dataTheme' = "light"
              /\ printLog' = printLog
        /\ (build # "part_000" /\ printLog' # printLog) =>
              /\ timers # <<>>
              /\ timers' = Tail(timers)
              /\ printLog' = Append(printLog, dataTheme)
              /\ dataTheme' = IF Head(timers) = NULL THEN NULL ELSE Head(timers)
      ]_vars

C6_Witness ==
    /\ last = "timer" /\ printLog = <<"light">> /\ dataTheme = "dark"
    /\ burst.base = "dark"

\* C7: every window.print() the page script invokes runs under data-theme
\* 'light'.
C7_PrintsUnderLight ==
    build = "main.js" => \A i \in 1..Len(printLog) : printLog[i] = "light"

\* C8: open(ref) with a non-empty source immediately followed by close()
\* gives the initial closed state: modal hidden, page scroll enabled.
C8_OpenCloseRoundTrip ==
    [][ (/\ last = "open" /\ modal.src \in { t.cert : t \in ValidTriggers }
         /\ last' = "close")
        => (modal'.hidden = ClosedModal.hidden /\ overflow' = "") ]_vars

C8_Witness ==
    /\ last = "close" /\ modal.src = "a.png" /\ modal.hidden /\ overflow = ""

\* C9: open with a missing or empty data-cert changes nothing of the modal:
\* visibility, image source, alt text, title, page scroll.
C9_OpenInvalidNoop ==
    [][ (\E t \in Triggers \ ValidTriggers : TriggerClick(t))
        => UNCHANGED <<modal, overflow>> ]_vars

\* C10: the page scroll is suspended exactly when the modal is visible.
C10_ScrollTracksModal ==
    (overflow = "hidden") <=> ~modal.hidden

C10_Witness ==
    /\ last = "open" /\ ~modal.hidden /\ overflow = "hidden"

\* C11: after a successful open the close control holds keyboard focus, and
\* after the close that follows focus is back on the element that held it
\* when the modal was opened (here: a page element the user had focused).
C11_FocusManaged ==
    /\ (last = "open" => focus = "closeBtn")
    /\ ( /\ last = "close" /\ wasOpen /\ focusBefore = "trigger"
          /\ modal.src \in { t.cert : t \in ValidTriggers } )
       => focus = "trigger"

\* C12: on a visible modal a click on the close control, a click on the
\* overlay and an Escape keydown each hide it and re-enable the page scroll;
\* Escape on a hidden modal and every other key leave visibility and scroll
\* as they are.
C12_CloseTriggers ==
    [][ /\ ( /\ ~modal.hidden
             /\ (CloseClick \/ OverlayClick
                     \/ \E m \in BOOLEAN : KeyDown("Escape", m)) )
           => (modal'.hidden /\ overflow' = "")
        /\ (modal.hidden /\ \E m \in BOOLEAN : KeyDown("Escape", m))
           => UNCHANGED <<modal, overflow>>
        /\ (\E k \in Keys \ {"Escape"}, m \in BOOLEAN : KeyDown(k, m))
           => UNCHANGED <<modal, overflow>>
      ]_vars

C12_Witness ==
    /\ last = "close" /\ wasOpen /\ modal.hidden /\ overflow = ""
    /\ modal.src = "b.png"

\* C13: close() on an already hidden modal changes nothing (hidden, scroll
\* enabled), so a second close() in a row gives the state of the first; every
\* close() ends hidden with the scroll enabled.
C13_CloseIdempotent ==
    [][ (CloseClick \/ OverlayClick)
        => /\ modal'.hidden /\ overflow' = ""
           /\ modal.hidden => UNCHANGED <<modal, overflow>> ]_vars

C13_Witness ==
    /\ last = "close" /\ ~wasOpen /\ modal.hidden /\ overflow = ""

\* C14: open(refB) with a valid source on a visible modal keeps it visible
\* with the scroll suspended and shows refB's source, alt text and title; no
\* step other than an open changes the displayed content.
C14_OpenReplacesContent ==
    [][ /\ \A t \in ValidTriggers :
              (TriggerClick(t) /\ ~modal.hidden)
              => /\ ~modal'.hidden /\ overflow' = "hidden"
                 /\ modal'.src = t.cert
                 /\ modal'.alt = "Certificado " \o t.title
                 /\ modal'.title = t.title
        /\ (~ \E t \in Triggers : TriggerClick(t))
              => /\ modal'.src = modal.src /\ modal'.alt = modal.alt
                 /\ modal'.title = modal.title
      ]_vars

C14_Witness ==
    /\ last = "open" /\ wasOpen /\ ~modal.hidden /\ overflow = "hidden"
    /\ modal.src = "b.png" /\ modal.alt = "Certificado B" /\ modal.title = "B"

\* the links of the page that target a section
LinksTo(id) == { i \in DOMAIN nav.links : nav.links[i] = "#" \o id }
Markings == SUBSET (DOMAIN nav.links)

\* C15 (as claimed): no link is active before a section has been reported
\* intersecting; afterwards exactly one link is active, the one targeting the
\* section most recently reported intersecting.
C15_ExactlyOneActive ==
    inited =>
        IF lastSeen = "none" THEN navActive = {}
        ELSE /\ Cardinality(navActive) = 1
             /\ \A i \in navActive : nav.links[i] = "#" \o lastSeen

\* C15 (amended): no link is active before a section has been reported
\* intersecting; afterwards the active links are exactly the links targeting
\* the section most recently reported intersecting, so at most one section is
\* active: one link when one link targets it, none when none does.
C15_ActiveSection ==
    inited =>
        IF lastSeen = "none" THEN navActive = {}
        ELSE /\ navActive = LinksTo(lastSeen)
             /\ \A i, j \in navActive : nav.links[i] = nav.links[j]
             /\ Cardinality(LinksTo(lastSeen)) = 1 => Cardinality(navActive) = 1

C15_Witness ==
    /\ lastSeen = "contact" /\ navActive = {}
    /\ Len(lastBatch) = 2 /\ lastBatch[1].target = "about"
    /\ lastBatch[1].isIntersecting /\ lastBatch[2].target = "contact"

\* C16 (as claimed): for every id and every prior marking, after
\* setActive(id) exactly one link carries the marker, the one whose href is
\* '#' + id.
C16_SetActiveExactlyOne ==
    \A id \in SectionIds, m \in Markings :
        /\ Cardinality(SetActive(nav.links, m, id)) = 1
        /\ \A i \in SetActive(nav.links, m, id) : nav.links[i] = "#" \o id

\* C16 (amended): for every id and every prior marking, after setActive(id)
\* a link carries the marker exactly if its href is '#' + id: one link when
\* one link has that target.
C16_SetActivePost ==
    \A id \in SectionIds, m \in Markings :
        /\ SetActive(nav.links, m, id) = LinksTo(id)
        /\ Cardinality(LinksTo(id)) = 1
              => Cardinality(SetActive(nav.links, m, id)) = 1

C16_Witness ==
    /\ nav.links = <<"#about", "#skills", "#about">>
    /\ lastSeen = "about" /\ navActive = {1, 3}
    /\ lastBatch[1].target = "skills" /\ lastBatch[1].isIntersecting

\* C17: for every id and every prior marking, setActive(id) applied twice
\* leaves the active links of one application.
C17_SetActiveIdempotent ==
    \A id \in SectionIds, m \in Markings :
        SetActive(nav.links, SetActive(nav.links, m, id), id)
            = SetActive(nav.links, m, id)

C17_Witness ==
    /\ Len(lastBatch) = 2
    /\ lastBatch[1] = [target |-> "about", isIntersecting |-> TRUE]
    /\ lastBatch[2] = [target |-> "about", isIntersecting |-> TRUE]
    /\ navActive = {1}

\* C18: after a callback whose batch reports several sections intersecting,
\* the active links are those of the last intersecting entry in batch order;
\* for A then B the link for B is active and the link for A is not.
C18_LastWriterWins ==
    (last = "intersect" /\ LastIntersecting(lastBatch, "none") # "none") =>
        /\ navActive = LinksTo(LastIntersecting(lastBatch, "none"))
        /\ \A a \in DOMAIN lastBatch :
              ( /\ lastBatch[a].isIntersecting
                /\ lastBatch[a].target # LastIntersecting(lastBatch, "none") )
              => navActive \cap LinksTo(lastBatch[a].target) = {}

C18_Witness ==
    /\ last = "intersect"
    /\ lastBatch = << [target |-> "about", isIntersecting |-> TRUE],
                      [target |-> "skills", isIntersecting |-> TRUE] >>
    /\ navActive = {2}

\* C19: with no navigation link or no section[id], init observes nothing and
\* the links' markers never change afterwards; otherwise every section is
\* observed.
C19_NavInitNoop ==
    inited =>
        IF Len(nav.links) = 0 \/ Len(nav.sections) = 0
        THEN observed = {} /\ navActive = {} /\ lastBatch = <<>>
        ELSE observed = Range(nav.sections)

C19_Witness ==
    /\ inited /\ Len(nav.links) = 0 /\ Len(nav.sections) = 2 /\ observed = {}

\* C20 (as claimed): after init the applied theme is the persisted value if
\* there is one and is unset if there is none, on every page.
C20_InitAppliesPersisted ==
    last = "init" =>
        IF storage # NULL THEN dataTheme = storage ELSE dataTheme = NULL

\* C20 (amended): init writes nothing to storage; on a page with the toggle
\* button and readable storage the applied theme is then the persisted value
\* if there is one and unset if there is none; on a page without the button,
\* or when reading the storage throws, it stays unset.
C20_ThemeInit ==
    [][ (~inited /\ inited')
        => /\ storage' = storage
           /\ dataTheme' = IF dom.toggle /\ storageMode # "denied" /\ storage # NULL
                            THEN storage ELSE NULL
      ]_vars

C20_Witness ==
    /\ last = "init" /\ ~dom.toggle /\ storage = "dark" /\ dataTheme = NULL

\* the module an anchor element belongs to and the listeners it would carry
AnchorWidget(a) ==
    IF a = "toggle" THEN "ThemeManager"
    ELSE IF a = "modal" THEN "CertModal" ELSE "PDFExport"
AnchorListeners(a) ==
    IF a = "toggle" THEN {"toggle.click", "toggle.touchend"}
    ELSE IF a = "modal"
    THEN {"trigger.click", "close.click", "overlay.click", "keydown.escape"}
    ELSE {"export.click", "export.touchend"}
InitResult(o) ==
    <<InitOutcome(o).widgets, InitOutcome(o).listeners, InitOutcome(o).dataTheme,
      InitOutcome(o).observed, InitOutcome(o).dataJs>>

\* C21: when storage access throws, no exception escapes ThemeManager.init
\* or switchTheme, the toggle handler is installed by init, and every toggle
\* flips the applied theme.
C21_StorageFailSilent ==
    [][ storageMode # "ok" =>
          /\ uncaught' = {}
          /\ (inited' /\ dom.toggle) => "toggle.click" \in listeners'
          /\ ToggleClick => dataTheme' = NextTheme(dataTheme, prefersDark)
      ]_vars

\* C22: once init() has been called, every module whose own init does not
\* fail is initialised with its handlers registered and the page carries the
\* data-js marker, whichever module's init failed.
C22_FailureContained ==
    inited =>
        /\ \A w \in Range(order) :
              ~Throws(w) => (w \in widgets /\ WidgetListeners(w) \subseteq listeners)
        /\ dataJs

\* C23: with the toggle button, the modal element or the export button
\* absent, that module registers no handler and its init does not throw, and
\* every other module is initialised with the handlers it registers when the
\* anchor is present.
C23_MissingAnchorLocal ==
    inited =>
        \A a \in {"toggle", "modal", "exportBtn"} :
            ~dom[a] =>
                /\ listeners \cap AnchorListeners(a) = {}
                /\ ~Throws(AnchorWidget(a))
                /\ \A w \in Range(order) \ {AnchorWidget(a)} :
                      w \in widgets /\ WidgetListeners(w) \subseteq listeners

\* C24: whatever the order of the init calls, init() leaves the state the
\* source order leaves: initialised modules, handlers, applied theme,
\* observed sections, data-js marker; storage, modal and markers untouched.
C24_OrderInsensitive ==
    [][ (~inited /\ inited') =>
          /\ <<widgets', listeners', dataTheme', observed', dataJs'>>
                = InitResult(SourceOrder(build))
          /\ UNCHANGED <<storage, modal, overflow, navActive>>
      ]_vars

\* C25 (as claimed): every write to the theme key stores 'light' or 'dark',
\* the key is never removed, and from an absent key the persisted value is
\* absent exactly until the first toggle.
C25_KeySpace ==
    [][ /\ storage' # storage => storage' \in Themes
        /\ storage # NULL => storage' # NULL
        /\ run' = 0 => storage' = NULL
        /\ run' \in 1..MaxToggles => storage' \in Themes
      ]_vars

\* C25 (amended): every write stores 'light' or 'dark', the key is never
\* removed, and from an absent key the persisted value is absent until the
\* first toggle whose write the storage accepts: from the first toggle on
\* when storage works, for the whole page load when it rejects writes.
C25_KeySpaceWritable ==
    [][ /\ storage' # storage => storage' \in Themes
        /\ storage # NULL => storage' # NULL
        /\ run' = 0 => storage' = NULL
        /\ run' \in 1..MaxToggles =>
              IF storageMode = "ok" THEN storage' \in Themes
                                    ELSE storage' = NULL
      ]_vars

C25_Witness ==
    /\ last = "toggle" /\ run = 2 /\ storageMode = "full"
    /\ storage = NULL /\ dataTheme = "light"

\* C26: one page load issues at most one telemetry POST: exactly one when
\* Analytics.init has run, issued in the init step; when the request settles,
\* with whatever outcome, no further request is issued and none is pending.
C26_SentOnce ==
    [][ /\ requests' = IF "Analytics" \in widgets' THEN 1 ELSE 0
        /\ (requests' # requests) => (~inited /\ inited' /\ inflight')
        /\ (\E outcome \in Outcomes : TrackSettle(outcome))
              => (requests' = requests /\ ~inflight')
      ]_vars

C26_Witness ==
    /\ last = "settle" /\ requests = 1 /\ ~inflight /\ trackLog = <<>>

\* C27: the step that issues the telemetry request completes init (every
\* module initialised, data-js set) with the request still pending; the
\* request's outcome, whichever it is, changes no theme, navigation, modal or
\* handler state and lets no exception escape; widget handlers run while the
\* request is pending.
C27_TelemetryIsolated ==
    [][ /\ (~inflight /\ inflight')
              => (dataJs' /\ widgets' = Range(order) /\ uncaught' = {})
        /\ (\E outcome \in Outcomes : TrackSettle(outcome))
              => /\ UNCHANGED <<dataTheme, storage, navActive, modal, overflow,
                                listeners, widgets, dataJs>>
                 /\ uncaught' = uncaught
      ]_vars

C27_Witness ==
    /\ last = "settle" /\ trackLog = <<"Analytics tracking failed:">>
    /\ dataTheme = "dark" /\ storage = "dark" /\ ~modal.hidden /\ navActive = {2}
    /\ uncaught = {} /\ dataJs

\* C28: a settled telemetry request leaves exactly one log entry: the success
\* entry for a 2xx response, one failure entry for a rejected request and for
\* a non-2xx response.
C28_FailureLogged ==
    [][ \A outcome \in Outcomes :
          TrackSettle(outcome) =>
              trackLog' = Append(trackLog,
                                 IF outcome = "2xx" THEN "Visit tracked"
                                 ELSE "Analytics tracking failed:")
      ]_vars

\* C29: init() is called at most once; while the document is loading it has
\* not been called and no handler is registered (the script only defers it);
\* once the script has run and the document is no longer loading it has been
\* called exactly once.
C29_InitOnce ==
    /\ initRuns <= 1
    /\ readyState = "loading" => (initRuns = 0 /\ listeners = {} /\ widgets = {})
    /\ script = "deferred" => readyState = "loading"
    /\ (script # "start" /\ readyState # "loading") => (initRuns = 1 /\ inited)
    /\ script = "start" => initRuns = 0

C29_Witness ==
    /\ script = "deferred" /\ readyState = "loading" /\ last = "defer"
    /\ initRuns = 0 /\ listeners = {}

\* C30: a Ctrl+P / Cmd+P keydown does what a click on the export button does
\* (capture the theme, force 'light', schedule the print without printing
\* yet), with or without the export button on the page; other keys print
\* nothing and leave the theme alone.
C30_ShortcutIsExport ==
    [][ /\ (\E k \in Keys, m \in BOOLEAN : KeyDown(k, m) /\ k = "p" /\ m)
              => /\ timers' = Append(timers, dataTheme)
                 /\ dataTheme' = ForcedTheme
                 /\ printLog' = printLog
        /\ (\E k \in Keys, m \in BOOLEAN : KeyDown(k, m) /\ ~(k = "p" /\ m))
              => UNCHANGED <<timers, printLog, dataTheme>>
      ]_vars

\* C31: the persisted theme changes only in a switchTheme step; an exportPDF
\* step (button or shortcut) and a timer callback leave it as it is, with or
\* without toggles in between.
C31_ExportKeepsStorage ==
    [][ /\ storage' # storage => ToggleClick
        /\ (Len(timers') # Len(timers) \/ printLog' # printLog)
              => storage' = storage
      ]_vars

C31_Witness ==
    /\ last = "timer" /\ burst.toggled /\ Len(printLog) = 2
    /\ storage = "dark" /\ dataTheme = "light"

\* every entry of a batch reports its section as not intersecting
NoneIntersecting(entries) ==
    \A i \in DOMAIN entries : ~entries[i].isIntersecting

\* C32 (as claimed): a batch of non-intersecting entries leaves the active
\* links unchanged, and the active links change only when a section that has
\* a matching link is reported intersecting.
C32_LeaveKeepsHighlight ==
    [][ /\ (\E batch \in Batches(observed) :
                Intersect(batch) /\ NoneIntersecting(batch))
              => navActive' = navActive
        /\ navActive' # navActive
              => /\ LastIntersecting(lastBatch', "none") # "none"
                 /\ LinksTo(LastIntersecting(lastBatch', "none")) # {}
      ]_vars

\* C32 (amended): a batch of non-intersecting entries leaves the active
\* links unchanged, and the active links change only when a section is
\* reported intersecting; they become the links of that section, none when
\* no link targets it.
C32_LeaveKeepsActive ==
    [][ /\ (\E batch \in Batches(observed) :
                Intersect(batch) /\ NoneIntersecting(batch))
              => navActive' = navActive
        /\ navActive' # navActive
              => /\ LastIntersecting(lastBatch', "none") # "none"
                 /\ navActive' = LinksTo(LastIntersecting(lastBatch', "none"))
      ]_vars

C32_Witness ==
    /\ last = "intersect" /\ navActive = {1} /\ lastSeen = "about"
    /\ lastBatch = << [target |-> "about", isIntersecting |-> FALSE],
                      [target |-> "skills", isIntersecting |-> FALSE] >>

\* an element matches the href of an in-page anchor
Matches(href) ==
    \/ \E id \in Range(nav.sections) : href = "#" \o id
    \/ href = SkipHref /\ dom.main

\* C33: a click on an in-page anchor whose href is '#' or matches no element
\* prevents nothing, scrolls nowhere and pushes no history entry; any other
\* prevents the default, scrolls to the target and pushes one entry, the
\* href; theme, modal and navigation markers stay as they are.  On the skip
\* link, where Accessibility's listener runs too, the same holds of
\* SmoothScroll's listener: it is among the preventing listeners, its scroll
\* to #main comes first and one entry '#main' is pushed exactly when #main
\* exists.
C33_SmoothScroll ==
    [][ /\ \A href \in AnchorHrefs :
             AnchorClick(href) =>
               /\ IF href = "#" \/ ~Matches(href)
                  THEN /\ ~scroll'.prevented
                       /\ scroll'.scrolledTo = scroll.scrolledTo
                       /\ scroll'.pushed = scroll.pushed
                  ELSE /\ scroll'.prevented
                       /\ Len(scroll'.scrolledTo) = Len(scroll.scrolledTo) + 1
                       /\ "#" \o scroll'.scrolledTo[Len(scroll'.scrolledTo)] = href
                       /\ scroll'.pushed = Append(scroll.pushed, href)
               /\ UNCHANGED <<dataTheme, storage, modal, overflow, navActive>>
        /\ (SkipClick /\ "anchor.click" \in listeners) =>
               /\ IF ~Matches(SkipHref)
                  THEN /\ "SmoothScroll" \notin scroll'.by
                       /\ scroll'.scrolledTo = scroll.scrolledTo
                       /\ scroll'.pushed = scroll.pushed
                  ELSE /\ "SmoothScroll" \in scroll'.by
                       /\ Len(scroll'.scrolledTo) > Len(scroll.scrolledTo)
                       /\ "#" \o scroll'.scrolledTo[Len(scroll.scrolledTo) + 1]
                             = SkipHref
                       /\ scroll'.pushed = Append(scroll.pushed, SkipHref)
               /\ UNCHANGED <<dataTheme, storage, modal, overflow, navActive>>
      ]_vars

C33_Witness ==
    /\ last = "anchor" /\ ~scroll.prevented
    /\ scroll.pushed = <<"#skills">> /\ scroll.scrolledTo = <<"skills">>
    /\ dataTheme = "dark" /\ navActive = {1}

\* C34: a tap has caused exactly one call of the element's handler once its
\* events are dispatched: for the toggle the theme has flipped once, for the
\* export button one export is under way and, when its callback has run with
\* no other theme change, the theme is the one before the tap.
C34_OneTapOneAction ==
    ( /\ tap.target \in TapTargets /\ tap.pending = "none"
      /\ (tap.target \o ".click") \in listeners )
    => /\ tap.calls = 1
       /\ (tap.target = "toggle" /\ last = "toggle")
             => dataTheme = NextTheme(tap.before, prefersDark)
       /\ (tap.target = "export" /\ last = "export" /\ Len(timers) = 1)
             => (burst.n = 1 /\ dataTheme = ForcedTheme)
       /\ (tap.target = "export" /\ last = "timer" /\ burst.n = 1
              /\ ~burst.toggled /\ timers = <<>>)
             => (dataTheme = tap.before /\ Len(printLog) >= 1)

C34_Witness ==
    /\ build = "part_002" /\ tap.target = "toggle" /\ tap.pending = "none"
    /\ tap.calls = 1 /\ last = "toggle" /\ tap.before = "dark"
    /\ dataTheme = "light"

\* C35: after DarkMode.init with no saved preference and no toggle since, a
\* change of the system colour scheme is applied to the theme; with a
\* preference saved before the page loaded or after a toggle it is ignored.
C35_FollowsSystem ==
    [][ (legacy.inited /\ legacy'.system # legacy.system) =>
          IF ~legacy.savedAtLoad /\ ~legacy.userChose
          THEN /\ legacy'.dataTheme = IF legacy'.system THEN "dark" ELSE "light"
               /\ legacy'.darkClass = legacy'.system
          ELSE /\ legacy'.dataTheme = legacy.dataTheme
               /\ legacy'.darkClass = legacy.darkClass
      ]_vars

====
